---- MODULE Spec2Model ----
(***************************************************************************)
(* Model of heic2jpg.py: the HEIC/HEIF -> JPG batch converter.             *)
(*                                                                         *)
(* A path is a pair <<stem, ext>>: stem is the file name without suffix    *)
(* (all files live in one directory tree, stems 1..NumStems), ext is 0 for *)
(* ".jpg" and k >= 1 for HEIF_EXTS[k].  The file system maps every path to *)
(* a content <<kind, origin>>.  Worker processes of the pool interleave at *)
(* the granularity of the file-system calls of _convert_one.               *)
(***************************************************************************)
EXTENDS Integers, Sequences, FiniteSets, TLC

(* ---- bounds of the model ---- *)
NumStems == 2
NumExts == 2
MaxFiles == 2
MaxWorkers == 2
MaxRoots == 2

(* ---- program constants ---- *)
HEIF_EXTS == <<".heic", ".heif", ".heics", ".heifs">>

JpgExt == 0
MinExts == IF NumExts < Len(HEIF_EXTS) THEN NumExts ELSE Len(HEIF_EXTS)

Stems == 1..NumStems
Sources == Stems \X (1..MinExts)
Dests == Stems \X {JpgExt}
Paths == Sources \cup Dests

NoPath == <<0, 0>>
Absent == <<"absent", NoPath>>
Heif == <<"heif", NoPath>>
OldJpg == <<"jpg", NoPath>>
EmptyFile == <<"empty", NoPath>>
PartialFile == <<"partial", NoPath>>
NewJpg(src) == <<"jpg", src>>

Exists(f, p) == f[p] # Absent
(* dst_path.stat().st_size > 0 *)
NonEmpty(f, p) == f[p][1] \in {"jpg", "partial", "heif"}

(* src_path.with_suffix(".jpg") *)
with_suffix(p) == <<p[1], JpgExt>>

(* position of HEIF_EXTS[k] among the suffixes in string order:            *)
(* ".heic" < ".heics" < ".heif" < ".heifs"                                 *)
ExtRank == <<1, 3, 2, 4>>

(* sort key str(x).lower(): the stem first, then the suffix *)
PathKey(p) == p[1] * (Len(HEIF_EXTS) + 1) + ExtRank[p[2]]

RECURSIVE SortedSeq(_)
SortedSeq(S) ==
    IF S = {} THEN <<>>
    ELSE LET m == CHOOSE x \in S : \A y \in S : PathKey(x) <= PathKey(y)
         IN <<m>> \o SortedSeq(S \ {m})

(* every file of the tree with a recognised suffix, deduplicated, sorted *)
find_heif_files(f) == SortedSeq({p \in Sources : Exists(f, p)})

Range(s) == {s[k] : k \in 1..Len(s)}

Max(a, b) == IF a >= b THEN a ELSE b

VARIABLES
    fs,          \* the file system: path -> content
    overwrite,   \* args.overwrite
    max_workers, \* size of the pool: max(1, args.workers)
    heif_files,  \* result of discovery, a sorted sequence of source paths
    pc,          \* position of main
    stop,        \* the flag set by _sigint_handler
    ok, skipped, failed,   \* the counters of main
    st,          \* per source path: state of its future / position of its worker
    out,         \* per source path: <<status, message>> returned by _convert_one
    yielded,     \* futures as_completed has handed to the loop
    exc,         \* an exception is propagating out of main
    exitCode,    \* exit status of the process, -1 while running
    fsStart,     \* the file system when the current run started
    atStop,      \* one worker: number of finished futures when cancellation was requested
    im,          \* one attempt in detail: the image a worker holds and its environment
    disc,        \* discovery in detail: a tree, the roots given, the lists returned
    answer,      \* heic2jpg.py: the last line read by prompt_yes_no
    job,         \* heic2jpg.py: the parsed arguments and what each submitted call received
    dedup,       \* deduplicate.py: one run of main
    meta,        \* renamer.py: one pass of the loop over the Takeout folder
    card         \* fileChecker.py: one call of check_files

vars == <<fs, overwrite, max_workers, im, disc, answer, job, dedup, meta, card, heif_files, pc, stop, ok, skipped,
          failed, st, out, yielded, exc, exitCode, fsStart, atStop>>

(* the pool model does not look into the image or at how the tree is walked *)
NoImage == [stage |-> "none"]
NoDisc == [tree |-> {}]

(* a specification of one script leaves the state of the others alone *)
NoAnswer == "unasked"
NoJob == [pc |-> "none"]
NoDedup == [pc |-> "none"]
NoMeta == [pc |-> "none"]
NoCard == [pc |-> "none"]

NoOut == <<"none", "">>

(* the future holds the KeyboardInterrupt that ended its call *)
Interrupted == <<"raised", "KeyboardInterrupt">>

InFlight == {"check", "save", "verify", "unlink", "cleanup"}

Items == Range(heif_files)
Running == {p \in Items : st[p] \in InFlight}
Pending == {p \in Items : st[p] = "pending"}
Finished == {p \in Items : st[p] = "done"}

FreshRun(f) ==
    /\ heif_files = find_heif_files(f)
    /\ pc = "start"
    /\ stop = FALSE
    /\ ok = 0 /\ skipped = 0 /\ failed = 0
    /\ st = [p \in Sources |-> "idle"]
    /\ out = [p \in Sources |-> NoOut]
    /\ yielded = {}
    /\ exc = FALSE
    /\ exitCode = -1
    /\ fsStart = f
    /\ atStop = -1

(* number of source files named stem.* in the tree *)
SameStem(f, s) == Cardinality({p \in Sources : p[1] = s /\ Exists(f, p)})

(* File names matter only through which files share a stem, so the tree is *)
(* taken up to renaming: the stems in use are 1..k, the suffixes in use    *)
(* under a stem are 1..m, and an earlier stem has at least as many files.  *)
(* A .jpg that stands next to no source is never looked at and is left out.*)
Canonical(f) ==
    \A p \in Sources :
        Exists(f, p) =>
            /\ p[2] > 1 => Exists(f, <<p[1], p[2] - 1>>)
            /\ p[1] > 1 => SameStem(f, p[1] - 1) >= SameStem(f, p[1])

Init ==
    /\ fs \in [Paths -> {Absent, Heif, OldJpg}]
    /\ \A p \in Sources : fs[p] \in {Absent, Heif}
    /\ \A p \in Dests : fs[p] \in {Absent, OldJpg}
    /\ \A p \in Dests : Exists(fs, p) => SameStem(fs, p[1]) > 0
    /\ Cardinality({p \in Sources : Exists(fs, p)}) <= MaxFiles
    /\ Canonical(fs)
    /\ overwrite \in BOOLEAN
    /\ \E workers \in 0..MaxWorkers : max_workers = Max(1, workers)
    /\ im = NoImage
    /\ disc = NoDisc
    /\ answer = NoAnswer /\ job = NoJob /\ dedup = NoDedup /\ meta = NoMeta /\ card = NoCard
    /\ FreshRun(fs)

(* ---- main: lines 254-350 ---- *)

(* what the user may type at the prompt, and input().strip().lower() of it *)
RawAnswers == {"", "y", "Y", " yes ", "n", "NO", "maybe"}
StripLower(r) ==
    CASE r = "Y" -> "y"
      [] r = " yes " -> "yes"
      [] r = "NO" -> "no"
      [] OTHER -> r

(* one pass of the loop of prompt_yes_no: "true", "false" or "again" *)
prompt_yes_no(raw, hasDefault, default) ==
    LET resp == StripLower(raw) IN
    IF resp = "" /\ hasDefault THEN (IF default THEN "true" ELSE "false")
    ELSE IF resp \in {"y", "yes"} THEN "true"
    ELSE IF resp \in {"n", "no"} THEN "false"
    ELSE "again"

ExitCodeOf(f) == IF f = 0 THEN 0 ELSE 2

(* total == 0: "No HEIC/HEIF files found.", return 0 *)
NoFiles ==
    /\ pc = "start"
    /\ Len(heif_files) = 0
    /\ pc' = "exited"
    /\ exitCode' = 0
    /\ UNCHANGED <<fs, overwrite, max_workers, im, disc, answer, job, dedup, meta, card, heif_files, stop, ok, skipped, failed,
                   st, out, yielded, exc, fsStart, atStop>>

(* prompt_yes_no("Proceed with conversion?", default=False) *)
Prompt ==
    /\ pc = "start"
    /\ Len(heif_files) > 0
    /\ \E raw \in RawAnswers :
         LET a == prompt_yes_no(raw, TRUE, FALSE) IN
         /\ pc' = CASE a = "true" -> "submit"
                    [] a = "false" -> "exited"
                    [] OTHER -> "start"
         /\ exitCode' = IF a = "false" THEN 0 ELSE exitCode
    /\ UNCHANGED <<fs, overwrite, max_workers, im, disc, answer, job, dedup, meta, card, heif_files, stop, ok, skipped, failed,
                   st, out, yielded, exc, fsStart, atStop>>

(* the handler is installed, the pool is created, every item is submitted *)
Submit ==
    /\ pc = "submit"
    /\ stop' = FALSE
    /\ ok' = 0 /\ skipped' = 0 /\ failed' = 0
    /\ st' = [p \in Sources |-> IF p \in Items THEN "pending" ELSE st[p]]
    /\ pc' = "drain"
    /\ UNCHANGED <<fs, overwrite, max_workers, im, disc, answer, job, dedup, meta, card, heif_files, out, yielded, exc, exitCode, fsStart, atStop>>

(* SIGINT is delivered to the main process, where the handler of line 291  *)
(* is installed                                                            *)
_sigint_handler ==
    /\ pc \in {"drain", "shutdown"}
    /\ ~stop
    /\ stop' = TRUE
    /\ atStop' = IF max_workers = 1 THEN Cardinality(Finished) ELSE atStop
    /\ UNCHANGED <<fs, overwrite, max_workers, im, disc, answer, job, dedup, meta, card, heif_files, pc, ok, skipped, failed,
                   st, out, yielded, exc, exitCode, fsStart>>

(* f.cancel() for every future: only a pending future is cancelled *)
CancelAll(s) ==
    [p \in Sources |-> IF p \in Items /\ s[p] = "pending" THEN "cancelled" ELSE s[p]]

(* one iteration of "for fut in as_completed(futures)", lines 315-339 *)
Drain(p) ==
    /\ pc = "drain"
    /\ p \in Finished \ yielded
    /\ yielded' = yielded \cup {p}
    /\ IF out[p][1] = "raised"
       THEN \* fut.result() re-raises; line 340 catches KeyboardInterrupt only,
            \* and either way the loop is left without a cancel
            /\ exc' = (out[p] # Interrupted)
            /\ pc' = "shutdown"
            /\ UNCHANGED <<ok, skipped, failed, st>>
       ELSE /\ ok' = IF out[p][1] = "converted" THEN ok + 1 ELSE ok
            /\ skipped' = IF out[p][1] = "skipped" THEN skipped + 1 ELSE skipped
            /\ failed' = IF out[p][1] \notin {"converted", "skipped"}
                         THEN failed + 1 ELSE failed
            /\ IF stop
               THEN /\ st' = CancelAll(st)
                    /\ pc' = "shutdown"
               ELSE UNCHANGED <<st, pc>>
            /\ UNCHANGED exc
    /\ UNCHANGED <<fs, overwrite, max_workers, im, disc, answer, job, dedup, meta, card, heif_files, stop, out, exitCode, fsStart, atStop>>

(* as_completed is exhausted: every future was yielded *)
LoopEnd ==
    /\ pc = "drain"
    /\ yielded = Items
    /\ pc' = "shutdown"
    /\ UNCHANGED <<fs, overwrite, max_workers, im, disc, answer, job, dedup, meta, card, heif_files, stop, ok, skipped, failed,
                   st, out, yielded, exc, exitCode, fsStart, atStop>>

(* leaving the with block: shutdown(wait=True), then lines 348-350 *)
Shutdown ==
    /\ pc = "shutdown"
    /\ Pending = {} /\ Running = {}
    /\ pc' = "exited"
    /\ exitCode' = IF exc THEN 1 ELSE ExitCodeOf(failed)
    /\ UNCHANGED <<fs, overwrite, max_workers, im, disc, answer, job, dedup, meta, card, heif_files, stop, ok, skipped, failed,
                   st, out, yielded, exc, fsStart, atStop>>

(* the user runs the converter again with the same arguments *)
Rerun ==
    /\ pc = "exited"
    /\ heif_files' = find_heif_files(fs)
    /\ pc' = "start"
    /\ stop' = FALSE
    /\ ok' = 0 /\ skipped' = 0 /\ failed' = 0
    /\ st' = [p \in Sources |-> "idle"]
    /\ out' = [p \in Sources |-> NoOut]
    /\ yielded' = {}
    /\ exc' = FALSE
    /\ exitCode' = -1
    /\ fsStart' = fs
    /\ atStop' = -1
    /\ UNCHANGED <<fs, overwrite, max_workers, im, disc, answer, job, dedup, meta, card>>

(* ---- the pool and the worker _convert_one: lines 175-251 ---- *)

(* the classes the except clause of line 245 names, and one it does not *)
Caught == {"UnidentifiedImageError", "OSError", "ValueError"}
Errors == Caught \cup {"DecompressionBombError"}

(* the work queue is FIFO: the next item is the first pending one *)
NextPending ==
    LET k == CHOOSE k \in 1..Len(heif_files) :
                 /\ st[heif_files[k]] = "pending"
                 /\ \A j \in 1..(k - 1) : st[heif_files[j]] # "pending"
    IN heif_files[k]

(* a pool that starts a call whether or not a process is free *)
Dispatch_NoLimit(p) ==
    /\ pc \in {"drain", "shutdown"}
    /\ Pending # {}
    /\ p = NextPending
    /\ st' = [st EXCEPT ![p] = "check"]
    /\ UNCHANGED <<fs, overwrite, max_workers, im, disc, answer, job, dedup, meta, card, heif_files, pc, stop, ok, skipped,
                   failed, out, yielded, exc, exitCode, fsStart,
                   atStop>>

(* a free process of the pool takes the next submitted call *)
Dispatch(p) ==
    /\ pc \in {"drain", "shutdown"}
    /\ Pending # {}
    /\ p = NextPending
    /\ Cardinality(Running) < max_workers
    /\ st' = [st EXCEPT ![p] = "check"]
    /\ UNCHANGED <<fs, overwrite, max_workers, im, disc, answer, job, dedup, meta, card, heif_files, pc, stop, ok, skipped,
                   failed, out, yielded, exc, exitCode, fsStart,
                   atStop>>

(* the future of p completes with result r *)
Return(p, r) ==
    /\ st' = [st EXCEPT ![p] = "done"]
    /\ out' = [out EXCEPT ![p] = r]

(* an exception of class e leaves stage code: caught at line 245 or not *)
Raise(p, e) ==
    IF e \in Caught
    THEN /\ st' = [st EXCEPT ![p] = "cleanup"]
         /\ UNCHANGED out
    ELSE Return(p, <<"raised", "exception">>)

(* the stages before the encoder, in order: 1 decode (line 196, Image.open), *)
(* 2 orientation (lines 200-204: exif_transpose, the EXIF bytes, the source *)
(* ICC), 3 flattening (line 207), 4 colour management (lines 209-215).      *)
Stages == <<"decode", "orient", "flatten", "color">>

(* _convert_to_srgb swallows its own errors; "keep" and "none" only assign *)
CanRaise(stage) == stage # "color"

(* lines 196-215: the worker reads its own source and works on its own     *)
(* image in memory; the stages run in order until one raises               *)
Open(p) ==
    \/ /\ Exists(fs, p)
       /\ st' = [st EXCEPT ![p] = "save"]
       /\ UNCHANGED out
    \/ \E k \in 1..Len(Stages), e \in Errors :
         /\ CanRaise(Stages[k])
         /\ Raise(p, e)

(* a worker that never looks whether the destination is already there *)
Start_NoSkip(p) ==
    /\ st[p] = "check"
    /\ Open(p)
    /\ UNCHANGED <<fs, overwrite, max_workers, im, disc, answer, job, dedup, meta, card, heif_files, pc, stop, ok, skipped,
                   failed, yielded, exc, exitCode, fsStart, atStop>>

(* lines 189-215: the destination check, then the source is opened and the  *)
(* image prepared.  No other process reads or writes what Open works on, so *)
(* it is taken in one step with the check that precedes it.                 *)
Start(p) ==
    /\ st[p] = "check"
    /\ IF Exists(fs, with_suffix(p)) /\ ~overwrite
       THEN Return(p, <<"skipped", "destination exists">>)
       ELSE Open(p)
    /\ UNCHANGED <<fs, overwrite, max_workers, im, disc, answer, job, dedup, meta, card, heif_files, pc, stop, ok, skipped,
                   failed, yielded, exc, exitCode, fsStart, atStop>>

(* ---- one attempt of _convert_one, stage by stage: lines 189-227 ---- *)

(* values of im.info.get("icc_profile"): no profile, empty bytes, a profile *)
(* ImageCms can read, a profile it cannot                                  *)
NoneVal == "None"
IccValues == {NoneVal, "", "DisplayP3", "corrupt"}
sRGB == "sRGB"

(* "if x:" for bytes or None *)
Truthy(b) == b \notin {NoneVal, ""}

(* the image a worker holds, with what its environment will do *)
Images ==
    [stage : {"attempt"},
     icc_mode : {"srgb", "keep", "none"},  \* args.icc
     info_icc : IccValues,                 \* the profile the source carries
     have_cms : BOOLEAN,                   \* _HAVE_CMS: ImageCms was imported
     srgb_ok : BOOLEAN,                    \* createProfile("sRGB") succeeds
     xform_ok : BOOLEAN,                   \* profileToProfile succeeds
     mode : {"RGB", "RGBA", "L"},          \* bands of the decoded image
     orientation : {0, 1, 6},              \* 0: no EXIF, 1: upright, 6: rotated
     ops : {<<>>},                         \* what was done to the pixels, in order
     exif_bytes : {"unset"},
     src_icc : {"unset"},
     icc_to_embed : {"unset"},
     swallowed : {{}}]                     \* errors raised and not passed on

(* ImageOps.exif_transpose: turn the pixels upright, drop the orientation *)
exif_transpose(i) ==
    IF i.orientation > 1
    THEN [i EXCEPT !.ops = Append(@, "transpose"), !.orientation = 1]
    ELSE i

(* _exif_orient_and_flatten, lines 104-115 *)
_exif_orient_and_flatten(i) ==
    LET t == exif_transpose(i) IN
    IF t.mode = "RGBA"
    THEN [t EXCEPT !.ops = Append(@, "flatten"), !.mode = "RGB"]
    ELSE IF t.mode # "RGB"
         THEN [t EXCEPT !.ops = Append(@, "toRGB"), !.mode = "RGB"]
         ELSE t

(* _convert_to_srgb, lines 118-147, that keeps the source profile but      *)
(* passes a failed transform on to its caller                              *)
_convert_to_srgb_NoCatch(i) ==
    IF ~i.have_cms
    THEN [i EXCEPT !.icc_to_embed = i.src_icc]
    ELSE IF ~i.srgb_ok
    THEN [i EXCEPT !.icc_to_embed = i.src_icc, !.swallowed = @ \cup {"createProfile"}]
    ELSE IF Truthy(i.src_icc)
    THEN IF i.src_icc # "corrupt" /\ i.xform_ok
         THEN [i EXCEPT !.ops = Append(@, "toSRGB"), !.icc_to_embed = sRGB]
         ELSE [i EXCEPT !.icc_to_embed = "raised"]
    ELSE [i EXCEPT !.icc_to_embed = sRGB]

(* _convert_to_srgb, lines 118-147: (image, profile to embed) *)
_convert_to_srgb(i) ==
    IF ~i.have_cms
    THEN [i EXCEPT !.icc_to_embed = i.src_icc]
    ELSE IF ~i.srgb_ok
    THEN [i EXCEPT !.icc_to_embed = i.src_icc, !.swallowed = @ \cup {"createProfile"}]
    ELSE IF Truthy(i.src_icc)
    THEN IF i.src_icc # "corrupt" /\ i.xform_ok
         THEN [i EXCEPT !.ops = Append(@, "toSRGB"), !.icc_to_embed = sRGB]
         ELSE [i EXCEPT !.icc_to_embed = i.src_icc,
                        !.swallowed = @ \cup {"profileToProfile"}]
    ELSE [i EXCEPT !.icc_to_embed = sRGB]

(* a colour branch in which "keep" is treated like the default mode *)
ColorManage_KeepConverts(i) ==
    CASE i.icc_mode \in {"srgb", "keep"} -> _convert_to_srgb(i)
      [] OTHER -> [i EXCEPT !.icc_to_embed = NoneVal]

(* lines 209-215: the branch on icc_mode *)
ColorManage(i) ==
    CASE i.icc_mode = "srgb" -> _convert_to_srgb(i)
      [] i.icc_mode = "keep" -> [i EXCEPT !.icc_to_embed = i.src_icc]
      [] OTHER -> [i EXCEPT !.icc_to_embed = NoneVal]

(* _save_jpeg, lines 161-171: the profile and the EXIF the encoder is given *)
SavedIcc(i) == IF Truthy(i.icc_to_embed) THEN i.icc_to_embed ELSE NoneVal
SavedExif(i) == IF Truthy(i.exif_bytes) THEN i.exif_bytes ELSE NoneVal

(* a step of the attempt that touches neither the files nor main *)
LocalStep ==
    UNCHANGED <<fs, overwrite, max_workers, disc, answer, job, dedup, meta, card, heif_files, pc, stop, ok, skipped,
                failed, yielded, exc, exitCode, fsStart, atStop>>

(* lines 192-193 *)
Check(p) ==
    /\ st[p] = "check"
    /\ IF Exists(fs, with_suffix(p)) /\ ~overwrite
       THEN Return(p, <<"skipped", "destination exists">>)
       ELSE st' = [st EXCEPT ![p] = "decode"] /\ UNCHANGED out
    /\ UNCHANGED im
    /\ LocalStep

(* stage 1, line 196: Image.open *)
Decode(p) ==
    /\ st[p] = "decode"
    /\ \/ /\ Exists(fs, p)
          /\ st' = [st EXCEPT ![p] = "orient"]
          /\ UNCHANGED out
       \/ \E e \in Errors : Raise(p, e)
    /\ UNCHANGED im
    /\ LocalStep

(* stage 2, lines 200-204: upright pixels, the EXIF bytes, the source profile *)
Orient(p) ==
    /\ st[p] = "orient"
    /\ \/ /\ LET t == exif_transpose(im) IN
             im' = [t EXCEPT !.exif_bytes = IF t.orientation = 0 THEN "" ELSE "exif",
                             !.src_icc = t.info_icc]
          /\ st' = [st EXCEPT ![p] = "flatten"]
          /\ UNCHANGED out
       \/ /\ \E e \in Errors : Raise(p, e)
          /\ UNCHANGED im
    /\ LocalStep

(* stage 3, line 207 *)
Flatten(p) ==
    /\ st[p] = "flatten"
    /\ \/ /\ im' = _exif_orient_and_flatten(im)
          /\ st' = [st EXCEPT ![p] = "color"]
          /\ UNCHANGED out
       \/ /\ \E e \in Errors : Raise(p, e)
          /\ UNCHANGED im
    /\ LocalStep

(* stage 4, lines 209-215.  _convert_to_srgb returns in every case and the *)
(* other branches only assign; an exception a callee let through would go  *)
(* to the except clause of line 245 like that of any other stage.          *)
Color(p) ==
    /\ st[p] = "color"
    /\ LET c == ColorManage(im) IN
       IF c.icc_to_embed = "raised"
       THEN (\E e \in Caught : Raise(p, e)) /\ UNCHANGED im
       ELSE /\ im' = c
            /\ st' = [st EXCEPT ![p] = "save"]
            /\ UNCHANGED out
    /\ LocalStep

(* stage 5, lines 218-227: _save_jpeg writes the destination *)
Save(p) ==
    LET dst == with_suffix(p) IN
    /\ st[p] = "save"
    /\ \/ \E left \in {"full", "empty", "missing"} :
            /\ fs' = [fs EXCEPT ![dst] = CASE left = "full" -> NewJpg(p)
                                           [] left = "empty" -> EmptyFile
                                           [] OTHER -> Absent]
            /\ st' = [st EXCEPT ![p] = "verify"]
            /\ UNCHANGED out
       \/ \E e \in Errors, c \in {PartialFile, fs[dst]} :
            /\ fs' = [fs EXCEPT ![dst] = c]
            /\ Raise(p, e)
    /\ UNCHANGED <<overwrite, max_workers, im, disc, answer, job, dedup, meta, card, heif_files, pc, stop, ok, skipped,
                   failed, yielded, exc, exitCode, fsStart, atStop>>

(* a worker that goes on to delete the source whatever the encoder left *)
Verify_NoCheck(p) ==
    /\ st[p] = "verify"
    /\ st' = [st EXCEPT ![p] = "unlink"]
    /\ UNCHANGED <<fs, overwrite, max_workers, im, disc, answer, job, dedup, meta, card, heif_files, pc, stop, ok, skipped,
                   failed, out, yielded, exc, exitCode, fsStart, atStop>>

(* stage 6, line 230: the destination exists and is not empty *)
Verify(p) ==
    LET dst == with_suffix(p) IN
    /\ st[p] = "verify"
    /\ st' = [st EXCEPT ![p] = IF Exists(fs, dst) /\ NonEmpty(fs, dst)
                                THEN "unlink" ELSE "cleanup"]
    /\ UNCHANGED <<fs, overwrite, max_workers, im, disc, answer, job, dedup, meta, card, heif_files, pc, stop, ok, skipped,
                   failed, out, yielded, exc, exitCode, fsStart, atStop>>

(* a worker that reports a failed delete as a failed item *)
Unlink_FailOnError(p) ==
    /\ st[p] = "unlink"
    /\ \/ /\ Exists(fs, p)
          /\ fs' = [fs EXCEPT ![p] = Absent]
          /\ Return(p, <<"converted", "dst">>)
       \/ /\ UNCHANGED fs
          /\ Return(p, <<"failed", "reason">>)
    /\ UNCHANGED <<overwrite, max_workers, im, disc, answer, job, dedup, meta, card, heif_files, pc, stop, ok, skipped,
                   failed, yielded, exc, exitCode, fsStart, atStop>>

(* lines 231-235: src_path.unlink(), which may fail *)
Unlink(p) ==
    /\ st[p] = "unlink"
    /\ \/ /\ Exists(fs, p)
          /\ fs' = [fs EXCEPT ![p] = Absent]
          /\ Return(p, <<"converted", "dst">>)
       \/ /\ UNCHANGED fs
          /\ Return(p, <<"converted", "dst (warning: could not delete source)">>)
    /\ UNCHANGED <<overwrite, max_workers, im, disc, answer, job, dedup, meta, card, heif_files, pc, stop, ok, skipped,
                   failed, yielded, exc, exitCode, fsStart, atStop>>

(* if dst_path.exists(): dst_path.unlink(), errors swallowed *)
RemoveDst(p) ==
    LET dst == with_suffix(p) IN
    \/ /\ Exists(fs, dst)
       /\ fs' = [fs EXCEPT ![dst] = Absent]
    \/ UNCHANGED fs

(* lines 237-243 (verification failed, "empty or missing output") and      *)
(* lines 245-251 (a caught exception, repr(e)): the same clean-up, and a    *)
(* 'failed' result that carries the reason                                  *)
Cleanup(p) ==
    /\ st[p] = "cleanup"
    /\ RemoveDst(p)
    /\ Return(p, <<"failed", "reason">>)
    /\ UNCHANGED <<overwrite, max_workers, im, disc, answer, job, dedup, meta, card, heif_files, pc, stop, ok, skipped,
                   failed, yielded, exc, exitCode, fsStart, atStop>>

(* The interrupt of the terminal goes to every process of the foreground   *)
(* group.  The handler is installed in main only (line 291) and the pool is *)
(* created without an initializer (line 299): a worker that was forked      *)
(* inherits the handler and goes on, a worker that was spawned has the      *)
(* default disposition and KeyboardInterrupt is raised at the point its     *)
(* call has reached.  No except clause of _convert_one catches it (line     *)
(* 245), so no clean-up runs; an encoder that had begun to write leaves     *)
(* what it had written.                                                     *)
KeyboardInterrupt(p) ==
    LET dst == with_suffix(p) IN
    /\ stop
    /\ st[p] \in InFlight
    /\ \E c \in (IF st[p] = "save" THEN {PartialFile, fs[dst]} ELSE {fs[dst]}) :
         fs' = [fs EXCEPT ![dst] = c]
    /\ Return(p, Interrupted)
    /\ UNCHANGED <<overwrite, max_workers, im, disc, answer, job, dedup, meta, card, heif_files, pc, stop, ok, skipped,
                   failed, yielded, exc, exitCode, fsStart, atStop>>

Worker(p) ==
    \/ Dispatch(p) \/ Start(p) \/ Save(p) \/ Verify(p)
    \/ Unlink(p) \/ Cleanup(p) \/ KeyboardInterrupt(p)

Next ==
    \/ NoFiles \/ Prompt \/ Submit \/ _sigint_handler
    \/ (\E p \in Items : Drain(p))
    \/ LoopEnd \/ Shutdown
    \/ (\E p \in Items : Worker(p))

Spec == Init /\ [][Next]_vars

(* the same, with the converter run again and again on what the last run left *)
NextRerun == Next \/ Rerun

InitRerun == Init /\ ~overwrite

SpecRerun == InitRerun /\ [][NextRerun]_vars

(* one item whose worker has just taken the call, with any image, any      *)
(* colour mode and any behaviour of the colour-management library          *)
Item0 == <<1, 1>>

InitAttempt ==
    /\ fs \in [Paths -> {Absent, Heif, OldJpg}]
    /\ \A p \in Paths \ {Item0, with_suffix(Item0)} : fs[p] = Absent
    /\ fs[Item0] = Heif
    /\ fs[with_suffix(Item0)] \in {Absent, OldJpg}
    /\ overwrite \in BOOLEAN
    /\ max_workers = 1
    /\ im \in Images
    /\ disc = NoDisc
    /\ answer = NoAnswer /\ job = NoJob /\ dedup = NoDedup /\ meta = NoMeta /\ card = NoCard
    /\ heif_files = find_heif_files(fs)
    /\ pc = "drain"
    /\ stop = FALSE
    /\ ok = 0 /\ skipped = 0 /\ failed = 0
    /\ st = [p \in Sources |-> IF p = Item0 THEN "check" ELSE "idle"]
    /\ out = [p \in Sources |-> NoOut]
    /\ yielded = {}
    /\ exc = FALSE
    /\ exitCode = -1
    /\ fsStart = fs
    /\ atStop = -1

Attempt(p) ==
    \/ Check(p) \/ Decode(p) \/ Orient(p) \/ Flatten(p) \/ Color(p)
    \/ Save(p) \/ Verify(p) \/ Unlink(p) \/ Cleanup(p)

NextAttempt == \E p \in Items : Attempt(p)

SpecAttempt == InitAttempt /\ [][NextAttempt]_vars

(* ---- discovery in detail: main lines 269-275, find_heif_files 77-88 ---- *)

(* A name in the tree is <<dir, <<stem, ext, case>>>>: dir 1 is a directory, *)
(* dir 2 a directory inside it; the stem is written "a" or "A"; ext is 0    *)
(* for ".jpg" and k for HEIF_EXTS[k]; case tells how the suffix is written: *)
(* ".heic", ".HEIC" or a mix such as ".Heic".                               *)
Dirs == {1, 2}
Under(d) == IF d = 1 THEN {1, 2} ELSE {2}
Cases == {"lower", "upper", "mixed"}
Names ==
    {n \in {"a", "A"} \X (0..MinExts) \X Cases : n[2] = 0 => (n[1] = "a" /\ n[3] = "lower")}
Entries == Dirs \X Names

DirOf(e) == e[1]
ExtOf(e) == e[2][2]
CaseOf(e) == e[2][3]

(* str(x).lower(): the directory, the stem in lower case, the suffix in    *)
(* lower case                                                              *)
LowerKey(e) == DirOf(e) * (Len(HEIF_EXTS) + 1) + (IF ExtOf(e) = 0 THEN 0 ELSE ExtRank[ExtOf(e)])

(* p.suffix.lower() in HEIF_EXTS *)
SuffixRecognised(e) == ExtOf(e) >= 1

(* the sets of at most n elements of S *)
RECURSIVE SubsetsUpTo(_, _)
SubsetsUpTo(S, n) ==
    IF n = 0 THEN {{}}
    ELSE LET prev == SubsetsUpTo(S, n - 1)
         IN prev \cup {t \cup {x} : t \in prev, x \in S}

(* the enumerations of a finite set, as sequences *)
Orders(S) ==
    {o \in [1..Cardinality(S) -> S] : \A a, b \in 1..Cardinality(S) : a # b => o[a] # o[b]}

(* what may be given on the command line *)
RootChoices(T) ==
    {<<"dir", d>> : d \in Dirs} \cup {<<"file", e>> : e \in T} \cup {<<"missing", 0>>}

RootLists(T) == UNION {[1..n -> RootChoices(T)] : n \in 1..MaxRoots}

(* a name matches rglob("*" + HEIF_EXTS[k]) (c = "lower") or                *)
(* rglob("*" + HEIF_EXTS[k].upper()) (c = "upper"): letter by letter where   *)
(* pathlib compares names as they are, whatever the case where it folds them *)
Matches(d, e, k, c) ==
    /\ ExtOf(e) = k
    /\ d.posix => CaseOf(e) = c

(* a directory can be listed: the inner one may be closed to listing       *)
(* ("nolist") or to listing and searching ("nosearch")                     *)
Listable(d, dir) == dir # 2 \/ d.perm2 = "ok"

(* p.rglob(pattern): the matching names below dir, in the order the        *)
(* directories hand them out; a directory that cannot be listed gives      *)
(* nothing (pathlib swallows the PermissionError)                          *)
rglob(d, dir, k, c, trav) ==
    SelectSeq(trav, LAMBDA e : /\ DirOf(e) \in Under(dir)
                               /\ Listable(d, dir)
                               /\ Listable(d, DirOf(e))
                               /\ Matches(d, e, k, c))

(* lines 80-83: one directory root, the suffixes in the order the set      *)
(* HEIF_EXTS iterates                                                      *)
RECURSIVE ScanDir(_, _, _, _, _)
ScanDir(d, dir, extOrder, i, trav) ==
    IF i > Len(extOrder) THEN <<>>
    ELSE rglob(d, dir, extOrder[i], "lower", trav)
            \o rglob(d, dir, extOrder[i], "upper", trav)
            \o ScanDir(d, dir, extOrder, i + 1, trav)

(* Path(p).resolve() *)
Resolve(d, e) == d.link[e]

(* is_dir() and is_file() raise PermissionError for a path below a         *)
(* directory that cannot be searched                                       *)
StatRaises(d, root) ==
    /\ d.perm2 = "nosearch"
    /\ root[1] = "file"
    /\ DirOf(Resolve(d, root[2])) = 2

(* lines 79-85, for one root of the list main resolved (line 269) *)
FromRoot(d, root, extOrder, trav) ==
    CASE root[1] = "dir" -> ScanDir(d, root[2], extOrder, 1, trav)
      [] root[1] = "file" ->
            IF SuffixRecognised(Resolve(d, root[2])) THEN <<Resolve(d, root[2])>> ELSE <<>>
      [] OTHER -> <<>>

RECURSIVE Collect(_, _, _, _)
Collect(d, i, extOrder, trav) ==
    IF i > Len(d.roots) THEN <<>>
    ELSE FromRoot(d, d.roots[i], extOrder, trav) \o Collect(d, i + 1, extOrder, trav)

(* line 87: a dict keyed by the resolved path keeps the keys in the order  *)
(* they first came and, for each key, the path that came last              *)
Unique(d, files) ==
    LET first == SelectSeq([i \in 1..Len(files) |-> i],
                     LAMBDA i : \A j \in 1..(i - 1) :
                                   Resolve(d, files[j]) # Resolve(d, files[i]))
        lastOf(i) == CHOOSE j \in 1..Len(files) :
                        /\ Resolve(d, files[j]) = Resolve(d, files[i])
                        /\ \A m \in (j + 1)..Len(files) :
                              Resolve(d, files[m]) # Resolve(d, files[i])
    IN [n \in 1..Len(first) |-> files[lastOf(first[n])]]

(* line 88: sorted() is stable, equal keys stay in the order they had *)
RECURSIVE StableSort(_)
StableSort(q) ==
    IF q = <<>> THEN <<>>
    ELSE LET m == CHOOSE i \in 1..Len(q) :
                     /\ \A j \in 1..Len(q) : LowerKey(q[i]) <= LowerKey(q[j])
                     /\ \A j \in 1..(i - 1) : LowerKey(q[j]) # LowerKey(q[i])
         IN <<q[m]>> \o StableSort(SubSeq(q, 1, m - 1) \o SubSeq(q, m + 1, Len(q)))

(* find_heif_files(roots) and what main prints about it, lines 269-276:    *)
(* raised: the scan ended with an exception; files: the list returned;     *)
(* named: the roots a message of main names                                *)
find_heif_files_roots(d, extOrder, trav) ==
    IF \E i \in 1..Len(d.roots) : StatRaises(d, d.roots[i])
    THEN [raised |-> TRUE, files |-> <<>>, named |-> {}]
    ELSE [raised |-> FALSE,
          files |-> StableSort(Unique(d, Collect(d, 1, extOrder, trav))),
          named |-> {}]

NoRun == [raised |-> FALSE, files |-> <<>>, named |-> {0}]

(* the trees: at most MaxFiles names, some of them symbolic links to       *)
(* another name of the tree; where names are compared ignoring case no two *)
(* names of a directory differ by case only                                *)
Links(T) == {l \in [T -> T] : \A e \in T : l[l[e]] = l[e]}

InitDiscovery ==
    /\ \E T \in SubsetsUpTo(Entries, MaxFiles) :
       \E l \in Links(T), r \in RootLists(T), px \in BOOLEAN,
          pm \in {"ok", "nolist", "nosearch"} :
          /\ ~px => \A e, f \in T : (e # f /\ DirOf(e) = DirOf(f)) => ExtOf(e) # ExtOf(f)
          /\ disc = [tree |-> T, link |-> l, roots |-> r, posix |-> px, perm2 |-> pm,
                     run1 |-> NoRun, run2 |-> NoRun]
    /\ im = NoImage
    /\ answer = NoAnswer /\ job = NoJob /\ dedup = NoDedup /\ meta = NoMeta /\ card = NoCard
    /\ fs = [p \in Paths |-> Absent]
    /\ overwrite = FALSE
    /\ max_workers = 1
    /\ FreshRun(fs)

(* main is started on the tree: lines 269-270 *)
Discover ==
    /\ disc.run1 = NoRun
    /\ \E extOrder \in Orders(1..MinExts), trav \in Orders(disc.tree) :
         disc' = [disc EXCEPT !.run1 = find_heif_files_roots(disc, extOrder, trav)]
    /\ UNCHANGED <<fs, overwrite, max_workers, im, answer, job, dedup, meta, card, heif_files, pc, stop, ok, skipped,
                   failed, st, out, yielded, exc, exitCode, fsStart, atStop>>

(* main is started once more on the same tree with the same roots *)
DiscoverAgain ==
    /\ disc.run1 # NoRun
    /\ disc.run2 = NoRun
    /\ \E extOrder \in Orders(1..MinExts), trav \in Orders(disc.tree) :
         disc' = [disc EXCEPT !.run2 = find_heif_files_roots(disc, extOrder, trav)]
    /\ UNCHANGED <<fs, overwrite, max_workers, im, answer, job, dedup, meta, card, heif_files, pc, stop, ok, skipped,
                   failed, st, out, yielded, exc, exitCode, fsStart, atStop>>

NextDiscovery == Discover \/ DiscoverAgain

SpecDiscovery == InitDiscovery /\ [][NextDiscovery]_vars

TypeOK == pc \in {"start", "submit", "drain", "shutdown", "exited"}

(* ---- the claims ---- *)

(* the prompt was answered yes and every discovered item went to the pool *)
Submitted == Items # {} /\ \A p \in Items : st[p] # "idle"

Counted == ok + skipped + failed

(* main reached lines 348-350 and printed the counts, and no call of the   *)
(* run ended with an exception                                             *)
Reported ==
    /\ pc = "exited" /\ Submitted /\ ~exc
    /\ \A p \in Items : out[p][1] # "raised"

WithStatus(s) == {p \in Items : out[p][1] = s}

(* C1: a source file is deleted only at a moment when the item's           *)
(* destination exists with non-zero size.                                  *)
C1_DeleteOnlyWithOutput ==
    [][\A p \in Sources :
         (Exists(fs, p) /\ ~Exists(fs', p))
            => (Exists(fs, with_suffix(p)) /\ NonEmpty(fs, with_suffix(p)))]_vars

(* C2: two distinct items handed to the pool never share a source or a     *)
(* destination path.                                                       *)
C2_DisjointPaths ==
    \A p, q \in Items :
        (p # q /\ st[p] # "idle" /\ st[q] # "idle")
            => {p, with_suffix(p)} \cap {q, with_suffix(q)} = {}

(* C3: when the run has ended, the destination of every item whose outcome *)
(* is 'failed' does not exist.                                             *)
C3_NoPartialArtifacts ==
    pc = "exited" =>
        \A p \in WithStatus("failed") : ~Exists(fs, with_suffix(p))

(* C4: without cancellation a run over N items drains N outcomes and ends  *)
(* with converted + skipped + failed = N.                                  *)
C4_ExactlyOnce ==
    (pc = "exited" /\ Submitted /\ ~stop) =>
        (yielded = Items /\ Counted = Len(heif_files))

(* C5: no error of a conversion attempt leaves the worker: every finished  *)
(* future holds 'converted', 'skipped' or 'failed' with a message, and no  *)
(* exception reaches the loop of main.                                     *)
C5_ErrorsCaught ==
    /\ ~exc
    /\ \A p \in Finished :
         /\ out[p][1] \in {"converted", "skipped", "failed"}
         /\ out[p][2] # ""

(* the destination of p was there when the run started, without --overwrite *)
SkipCase(p) == p \in Items /\ ~overwrite /\ Exists(fsStart, with_suffix(p))

SameFiles(p) ==
    /\ fs[p] = fsStart[p]
    /\ fs[with_suffix(p)] = fsStart[with_suffix(p)]

C6_State ==
    \A p \in Sources :
        SkipCase(p) =>
            /\ st[p] \in {"idle", "pending", "check", "cancelled", "done"}
            /\ st[p] = "done" =>
                  out[p] \in {<<"skipped", "destination exists">>, Interrupted}
            /\ st[p] # "done" => out[p] = NoOut
            /\ SameFiles(p)

C6_Step ==
    \A p \in Sources :
        (SkipCase(p) /\ pc = "exited" /\ pc' = "start") =>
            /\ SkipCase(p)'
            /\ fsStart'[p] = fsStart[p]
            /\ fsStart'[with_suffix(p)] = fsStart[with_suffix(p)]

(* C6: an item whose destination exists at the start of a run without      *)
(* --overwrite is never opened, what its worker returns is 'skipped',      *)
(* source and destination keep their content, and the next run finds the   *)
(* same case.                                                              *)
C6_SkipIdempotent == []C6_State /\ [][C6_Step]_vars

(* a later run (q was converted by an earlier one) skips p again *)
C6_Witness ==
    \E p, q \in Sources :
        /\ p # q
        /\ SkipCase(p)
        /\ st[p] = "done" /\ out[p][1] = "skipped"
        /\ fsStart[with_suffix(p)] = OldJpg
        /\ fsStart[with_suffix(q)] = NewJpg(q) /\ ~Exists(fsStart, q)

(* C7: the exit code is 0 when every item was converted or skipped, and    *)
(* non-zero whenever some item's attempt failed, cancelled runs included.  *)
C7_ExitCode ==
    Reported =>
        /\ (WithStatus("converted") \cup WithStatus("skipped") = Items
               => exitCode = 0)
        /\ (WithStatus("failed") # {} => exitCode # 0)

(* C8: with one worker, cancellation requested after the k-th completion   *)
(* ends the run with k outcomes and M-k items not attempted.               *)
C8_CancelOneWorker ==
    (Reported /\ max_workers = 1 /\ atStop >= 1) =>
        /\ Counted = atStop
        /\ Cardinality(Finished) = atStop
        /\ Cardinality({p \in Items : st[p] = "cancelled"})
              = Len(heif_files) - atStop

(* C9: when the run ends, every item a worker processed has its outcome in *)
(* the reported counts, and the items never started are the rest.          *)
C9_NoItemDropped ==
    Reported =>
        /\ ok = Cardinality(WithStatus("converted"))
        /\ skipped = Cardinality(WithStatus("skipped"))
        /\ failed = Cardinality(WithStatus("failed"))
        /\ Counted + Cardinality({p \in Items : st[p] = "cancelled"})
              = Len(heif_files)

C10_State == pc = "exited" => Running = {}

C10_Step ==
    \A p \in Sources :
        /\ (st[p] \in InFlight /\ st'[p] # st[p])
              => (st'[p] \in InFlight \cup {"done"} /\ out'[p] # Interrupted)
        /\ (stop' # stop \/ (st[p] = "pending" /\ st'[p] = "cancelled"))
              => fs' = fs
        /\ (Exists(fs, p) /\ ~Exists(fs', p))
              => (st[p] = "unlink" /\ st'[p] = "done" /\ out'[p][1] = "converted")

(* C10: once the interrupt has been requested, a conversion that has       *)
(* started is not interrupted: it goes on stage by stage to its own        *)
(* outcome, the process exits only when none is under way, the interrupt   *)
(* and the cancel change no file, and a source is deleted only by its own  *)
(* worker after verification.                                              *)
C10_InFlightFinishes == []C10_State /\ [][C10_Step]_vars

C11_State ==
    /\ max_workers >= 1
    /\ Cardinality(Running) <= max_workers

C11_Step ==
    \A p \in Sources :
        /\ (st'[p] = "pending" /\ st[p] # "pending") => (st[p] = "idle" /\ pc = "submit")
        /\ (st'[p] = "check" /\ st[p] # "check") => st[p] = "pending"
        /\ st[p] \in InFlight => st'[p] \in InFlight \cup {"done"}
        /\ st[p] \in {"done", "cancelled"} => st'[p] = st[p]

(* C11: the pool has max(1, N) >= 1 processes; at every moment at most     *)
(* that many items are being converted (one per process); an item is       *)
(* handed to the pool once, started once, from the queue, and once it has  *)
(* finished or was cancelled it is never started again in the run.         *)
C11_BoundedPool == []C11_State /\ [][C11_Step]_vars

(* the pool is full and an item is waiting for a free process *)
C11_Witness ==
    /\ Cardinality(Running) = max_workers
    /\ Pending # {}
    /\ \E p \in Items : st[p] = "save"

(* the message of line 234 *)
Warned(p) == out[p] = <<"converted", "dst (warning: could not delete source)">>

Converted(p) == st[p] = "done" /\ out[p][1] = "converted"

(* C12, as stated: a failed delete still gives 'converted' with a warning, *)
(* the destination is kept, and an item is 'converted' although a step of  *)
(* its attempt raised an error in this case only.                          *)
C12_OnlyDeleteWarning ==
    \A p \in Items :
        Converted(p) =>
            /\ Warned(p) => (Exists(fs, p) /\ fs[with_suffix(p)] = NewJpg(p))
            /\ (Exists(fs, p) \/ im.swallowed # {}) => Warned(p)

C12_State ==
    \A p \in Items :
        Converted(p) =>
            /\ Warned(p) <=> Exists(fs, p)
            /\ fs[with_suffix(p)] = NewJpg(p)
            /\ im.swallowed \subseteq {"createProfile", "profileToProfile"}
            /\ im.swallowed # {} => im.icc_mode = "srgb"

C12_Step ==
    \A p \in Items :
        /\ st[p] = "unlink" =>
              /\ st'[p] = "done"
              /\ out'[p][1] = "converted"
              /\ fs'[with_suffix(p)] = fs[with_suffix(p)]
              /\ Exists(fs', p) => (fs' = fs /\ Warned(p)')
        /\ st[p] = "done" => (st'[p] = "done" /\ fs' = fs)

(* C12, amended: when the verified output is there and the delete of the   *)
(* source fails, the worker returns 'converted' with the warning, keeps    *)
(* the destination and ends (one delete, no retry); an item is 'converted' *)
(* although an error was raised in this case and in the fallbacks of the   *)
(* default colour mode, where the error is swallowed without a warning.    *)
C12_DeleteWarning == []C12_State /\ [][C12_Step]_vars

(* the delete failed and the item was reported converted, with the warning *)
C12_Witness ==
    \E p \in Items :
        /\ Converted(p) /\ Warned(p)
        /\ Exists(fs, p) /\ fs[with_suffix(p)] = NewJpg(p)

(* main asked for conversion to sRGB, the source carries a profile, and    *)
(* reading it or applying it fails                                         *)
FallbackCase ==
    /\ im.icc_mode = "srgb" /\ im.have_cms /\ im.srgb_ok
    /\ Truthy(im.info_icc)
    /\ (im.info_icc = "corrupt" \/ ~im.xform_ok)

AfterColor(p) == st[p] \in {"save", "verify", "unlink"} \/ Converted(p)

C13_State ==
    \A p \in Items :
        FallbackCase =>
            /\ AfterColor(p) =>
                  /\ im.icc_to_embed = im.info_icc
                  /\ SavedIcc(im) = im.info_icc
                  /\ im.swallowed = {"profileToProfile"}
            /\ (st[p] = "done" /\ fs[with_suffix(p)] = NewJpg(p)) => Converted(p)

C13_Step ==
    \A p \in Items :
        (FallbackCase /\ st[p] = "color") => st'[p] = "save"

(* C13: in the default mode a source profile that cannot be read or        *)
(* applied does not fail the item: the colour stage hands over to the      *)
(* encoder with the original profile bytes to embed, and the item is       *)
(* 'converted' when the encoder wrote the destination.                     *)
C13_ProfileFallback == []C13_State /\ [][C13_Step]_vars

(* a source with an unreadable profile was converted, profile embedded as is *)
C13_Witness ==
    \E p \in Items :
        /\ FallbackCase /\ im.info_icc = "corrupt"
        /\ Converted(p) /\ ~Warned(p)
        /\ SavedIcc(im) = "corrupt"

(* the stages of an attempt as positions of its worker, in the order of    *)
(* the claim                                                               *)
StageOrder == <<"decode", "orient", "flatten", "color", "save", "verify", "unlink">>

StageOf(s) == CHOOSE k \in 1..Len(StageOrder) : StageOrder[k] = s

(* pixel operations in the order the stages apply them *)
OpRank(o) ==
    CASE o = "transpose" -> 2
      [] o \in {"flatten", "toRGB"} -> 3
      [] OTHER -> 4

C18_State ==
    \A p \in Items :
        /\ \A a, b \in 1..Len(im.ops) : a < b => OpRank(im.ops[a]) < OpRank(im.ops[b])
        /\ \A a \in 1..Len(im.ops) :
              st[p] \in Range(StageOrder) => OpRank(im.ops[a]) < StageOf(st[p])
        /\ st[p] \in {"check", "decode", "orient"} =>
              (im.exif_bytes = "unset" /\ im.src_icc = "unset")
        /\ st[p] \in {"flatten", "color", "save", "verify", "unlink"} =>
              (im.exif_bytes # "unset" /\ im.src_icc # "unset" /\ im.orientation < 2)
        /\ st[p] \in {"color", "save", "verify", "unlink"} => im.mode = "RGB"
        /\ st[p] \in {"save", "verify", "unlink"} <=>
              (im.icc_to_embed # "unset" /\ st[p] # "cleanup" /\ st[p] # "done")
        /\ st[p] \in {"check", "decode", "orient", "flatten", "color", "save"} =>
              fs = fsStart
        /\ Exists(fs, p) \/ Converted(p)

C18_Step ==
    \A p \in Items :
        /\ st'[p] # st[p] =>
              \/ st[p] = "check" /\ st'[p] \in {"decode", "done"}
              \/ st[p] \in {"decode", "orient", "flatten", "color", "save"}
                    /\ st'[p] \in {StageOrder[StageOf(st[p]) + 1], "cleanup", "done"}
              \/ st[p] = "verify" /\ st'[p] \in {"unlink", "cleanup"}
              \/ st[p] \in {"unlink", "cleanup"} /\ st'[p] = "done"
        /\ (st[p] \in Range(StageOrder) /\ st'[p] \in {"cleanup", "done"}
              /\ st[p] # "unlink") => (im' = im /\ fs'[p] = fs[p])
        /\ st'[p] = "unlink" =>
              (Exists(fs', with_suffix(p)) /\ NonEmpty(fs', with_suffix(p)))
        /\ fs'[p] # fs[p] => st[p] = "unlink"
        /\ fs'[with_suffix(p)] # fs[with_suffix(p)] => st[p] \in {"save", "cleanup"}

(* C18: an attempt goes through decode, orientation (with the EXIF bytes   *)
(* and the source profile captured), flattening, colour management,        *)
(* encode, verification and deletion in this order, one stage after the    *)
(* other; a stage that fails leaves for the clean-up or the end and no     *)
(* later stage runs; the destination is written by the encoder only, and   *)
(* the source is deleted only after the verification has passed.           *)
C18_StageOrder == []C18_State /\ [][C18_Step]_vars

(* every stage did something, and the item was converted *)
C18_Witness ==
    \E p \in Items :
        /\ Converted(p) /\ ~Exists(fs, p)
        /\ im.ops = <<"transpose", "flatten", "toSRGB">>
        /\ im.exif_bytes = "exif"

HasProfile == Truthy(im.info_icc)
Transformed == \E a \in 1..Len(im.ops) : im.ops[a] = "toSRGB"
SourceOrNone == IF HasProfile THEN im.info_icc ELSE NoneVal

(* C19, as stated: the embedded profile as a function of the mode and the  *)
(* source profile alone.                                                   *)
C19_ProfileByMode ==
    \A p \in Items :
        AfterColor(p) =>
            /\ im.icc_mode = "keep" => (SavedIcc(im) = SourceOrNone /\ ~Transformed)
            /\ im.icc_mode = "none" => SavedIcc(im) = NoneVal
            /\ (im.icc_mode = "srgb" /\ ~HasProfile) =>
                  (SavedIcc(im) = sRGB /\ ~Transformed)
            /\ (im.icc_mode = "srgb" /\ HasProfile /\ Transformed) =>
                  SavedIcc(im) = sRGB

(* ImageCms was imported and gives the sRGB profile *)
CmsReady == im.have_cms /\ im.srgb_ok

(* C19, amended: as stated for keep and none; in srgb mode as stated when  *)
(* ImageCms is there and gives the sRGB profile; otherwise srgb mode       *)
(* leaves the pixels alone and embeds the source profile, or none.         *)
C19_EmbeddedProfile ==
    \A p \in Items :
        AfterColor(p) =>
            /\ im.icc_mode = "keep" => (SavedIcc(im) = SourceOrNone /\ ~Transformed)
            /\ im.icc_mode = "none" => (SavedIcc(im) = NoneVal /\ ~Transformed)
            /\ (im.icc_mode = "srgb" /\ CmsReady /\ ~HasProfile) =>
                  (SavedIcc(im) = sRGB /\ ~Transformed)
            /\ (im.icc_mode = "srgb" /\ CmsReady /\ HasProfile
                   /\ im.info_icc # "corrupt" /\ im.xform_ok) =>
                  (SavedIcc(im) = sRGB /\ Transformed)
            /\ (im.icc_mode = "srgb" /\ ~CmsReady) =>
                  (SavedIcc(im) = SourceOrNone /\ ~Transformed)

(* srgb mode, no source profile: converted and tagged sRGB, pixels as they were *)
C19_Witness ==
    \E p \in Items :
        /\ Converted(p)
        /\ im.icc_mode = "srgb" /\ CmsReady /\ im.info_icc = NoneVal
        /\ SavedIcc(im) = sRGB /\ ~Transformed

(* C20: a step of the attempt for item p changes no file but p and its     *)
(* destination; the sources and the destinations of all other items are    *)
(* as they were.                                                           *)
C20_Frame ==
    [][\A p \in Items :
         (st[p] \in InFlight /\ st'[p] # st[p]) =>
            /\ \A x \in Paths \ {p, with_suffix(p)} : fs'[x] = fs[x]
            /\ \A q \in Items \ {p} :
                  /\ fs'[q] = fs[q]
                  /\ fs'[with_suffix(q)] = fs[with_suffix(q)]]_vars

(* a run of discovery that returned a list *)
Ran(r) == r # NoRun /\ ~r.raised

(* name e can be reached from the roots given: it lies below a directory   *)
(* root that can be listed, or it is what a file root resolves to          *)
Reachable(d, e) ==
    \E i \in 1..Len(d.roots) :
        \/ /\ d.roots[i][1] = "dir"
           /\ DirOf(e) \in Under(d.roots[i][2])
           /\ Listable(d, d.roots[i][2]) /\ Listable(d, DirOf(e))
        \/ /\ d.roots[i][1] = "file"
           /\ Resolve(d, d.roots[i][2]) = e

(* how often the file with canonical path c is in the list *)
Count(d, r, c) == Cardinality({i \in 1..Len(r.files) : Resolve(d, r.files[i]) = c})

(* C14: every file with a recognised extension that can be reached from    *)
(* the roots is in the result exactly once, and no canonical path is there *)
(* twice.                                                                  *)
C14_EachFileOnce ==
    Ran(disc.run1) =>
        /\ \A c \in disc.tree : Count(disc, disc.run1, c) <= 1
        /\ \A e \in disc.tree :
              (Reachable(disc, e) /\ SuffixRecognised(e))
                 => Count(disc, disc.run1, Resolve(disc, e)) = 1

(* C15: whatever the case of its suffix, a reachable file is returned if   *)
(* and only if the suffix is one of HEIF_EXTS, found by traversal or given *)
(* directly.                                                               *)
C15_CaseInsensitive ==
    Ran(disc.run1) =>
        /\ \A i \in 1..Len(disc.run1.files) : SuffixRecognised(disc.run1.files[i])
        /\ \A e \in disc.tree :
              (Reachable(disc, e) /\ SuffixRecognised(e))
                 => \E i \in 1..Len(disc.run1.files) :
                       Resolve(disc, disc.run1.files[i]) = Resolve(disc, e)

(* C16: two runs over the same tree with the same roots return the same    *)
(* sequence, however the suffix set and the directories are enumerated.    *)
C16_Deterministic ==
    (disc.run1 # NoRun /\ disc.run2 # NoRun) => disc.run1 = disc.run2

(* a root that does not exist or cannot be read *)
BadRoot(d, i) ==
    \/ d.roots[i][1] = "missing"
    \/ d.roots[i] = <<"dir", 2>> /\ d.perm2 # "ok"
    \/ StatRaises(d, d.roots[i])

(* C17: every root that does not exist or cannot be read is reported, and  *)
(* the scan ends with an error only when no root is readable.              *)
C17_PerRootFailure ==
    disc.run1 # NoRun =>
        /\ \A i \in 1..Len(disc.roots) : BadRoot(disc, i) => i \in disc.run1.named
        /\ disc.run1.raised => \A i \in 1..Len(disc.roots) : BadRoot(disc, i)

(* ---- C21 ---- *)

(* C21: in every state of a run, each discovered item has its source file *)
(* or a non-empty file at its destination, and an item whose outcome is   *)
(* "failed" or "skipped" still has its source file.                       *)
C21_NoImageLost ==
    \A p \in Items :
        /\ Exists(fs, p) \/ NonEmpty(fs, with_suffix(p))
        /\ out[p][1] \in {"failed", "skipped"} => Exists(fs, p)

(* ---- C22: the prompt of main, with the line the user typed kept ---- *)

(* files in the tree of a run that is followed from the prompt to its end *)
MaxAsked == 1

(* the same step of main with default=True: an empty line would mean yes *)
Confirm_DefaultYes ==
    /\ pc = "start"
    /\ Len(heif_files) > 0
    /\ \E raw \in RawAnswers :
         LET a == prompt_yes_no(raw, TRUE, TRUE) IN
         /\ answer' = raw
         /\ pc' = CASE a = "true" -> "submit"
                    [] a = "false" -> "exited"
                    [] OTHER -> "start"
         /\ exitCode' = IF a = "false" THEN 0 ELSE exitCode
    /\ UNCHANGED <<fs, overwrite, max_workers, im, disc, job, dedup, meta, card,
                   heif_files, stop, ok, skipped, failed, st, out, yielded, exc,
                   fsStart, atStop>>

(* lines 277-280: one line is read by prompt_yes_no("Proceed with          *)
(* conversion?", default=False); main goes on, returns 0 after "Aborted.", *)
(* or the question is asked again                                          *)
Confirm ==
    /\ pc = "start"
    /\ Len(heif_files) > 0
    /\ \E raw \in RawAnswers :
         LET a == prompt_yes_no(raw, TRUE, FALSE) IN
         /\ answer' = raw
         /\ pc' = CASE a = "true" -> "submit"
                    [] a = "false" -> "exited"
                    [] OTHER -> "start"
         /\ exitCode' = IF a = "false" THEN 0 ELSE exitCode
    /\ UNCHANGED <<fs, overwrite, max_workers, im, disc, job, dedup, meta, card,
                   heif_files, stop, ok, skipped, failed, st, out, yielded, exc,
                   fsStart, atStop>>

NextConfirm ==
    \/ NoFiles \/ Confirm \/ Submit \/ _sigint_handler
    \/ (\E p \in Items : Drain(p))
    \/ LoopEnd \/ Shutdown
    \/ (\E p \in Items : Worker(p))

InitConfirm == Init /\ Len(heif_files) <= MaxAsked

SpecConfirm == InitConfirm /\ [][NextConfirm]_vars

(* the user's last line, stripped and lower-cased, is y or yes *)
AnsweredYes == StripLower(answer) \in {"y", "yes"}

(* C22: no task is submitted and no file is written or deleted unless the  *)
(* user answered yes to the prompt; an empty answer counts as no (main has *)
(* returned 0), an unrecognized answer leaves main at the prompt; when the *)
(* answer was no or no file was found main returns 0 and the file system   *)
(* is as it was.                                                           *)
C22_ConfirmFirst ==
    /\ (fs # fsStart \/ \E p \in Sources : st[p] # "idle") => AnsweredYes
    /\ pc \in {"submit", "drain", "shutdown"} => AnsweredYes
    /\ answer = "" => pc = "exited"
    /\ answer = "maybe" => pc = "start"
    /\ (pc = "exited" /\ ~AnsweredYes) => (exitCode = 0 /\ fs = fsStart)

(* the user pressed return on the prompt of a run that had found files *)
C22_Witness ==
    /\ Len(heif_files) > 0
    /\ answer = ""
    /\ pc = "exited"
    /\ exitCode = 0
    /\ fs = fsStart

(* ==== deduplicate.py: one run of main on one directory ==== *)

MaxDupFiles == 3
MaxSize == 2

(* a file name <<base, trail, suffix>>: the stem is the base, followed by *)
(* " (1)" when trail is "(1)"; the suffix is ".jpg" or ".JPG". Per base:  *)
(* x.jpg, x (1).jpg and x.JPG                                             *)
DupNames ==
    {n \in (1..NumStems) \X {"", "(1)"} \X {"jpg", "JPG"} : n[2] = "" \/ n[3] = "jpg"}

(* p.stem *)
StemOf(n) == <<n[1], n[2]>>

(* lines 21-31: the duplicate marker at the end of the stem is stripped *)
normalize_stem(stem) == stem[1]

(* DUPLICATE_TRAIL_RE.search(stem), line 102 *)
HasTrail(stem) == stem[2] # ""

(* line 51: key = (normalize_stem(p.stem), p.suffix.lower()) *)
KeyOf(n) == <<normalize_stem(StemOf(n)), "jpg">>

(* f.name.lower() as a rank: "x (1).jpg" sorts before "x.jpg" *)
NameRank(n) == 2 * n[1] + (IF n[2] = "" THEN 1 ELSE 0)

(* the directories a run may be started on: a function from the names of *)
(* the files present to their sizes                                      *)
DupTrees ==
    UNION {[S -> 1..MaxSize] : S \in SubsetsUpTo(DupNames, MaxDupFiles)}

(* lines 57-63: st_size, or -1 when stat() raises OSError *)
SizeSeen(t, unread, n) == IF n \in unread THEN -1 ELSE t[n]

(* t sorts before u under sort(key=(size, name.lower()), reverse=True); two *)
(* names with equal keys differ in the case of the suffix only and keep the *)
(* order in which os.scandir listed them                                    *)
Before(t, unread, jpgFirst, n, m) ==
    LET sn == SizeSeen(t, unread, n)
        sm == SizeSeen(t, unread, m)
    IN \/ sn > sm
       \/ sn = sm /\ NameRank(n) > NameRank(m)
       \/ sn = sm /\ NameRank(n) = NameRank(m)
             /\ n[3] = (IF jpgFirst THEN "jpg" ELSE "JPG")

RECURSIVE SortedBySize(_, _, _, _)
SortedBySize(t, unread, jpgFirst, S) ==
    IF S = {} THEN <<>>
    ELSE LET f == CHOOSE n \in S :
                     \A m \in S \ {n} : Before(t, unread, jpgFirst, n, m)
         IN <<f>> \o SortedBySize(t, unread, jpgFirst, S \ {f})

(* lines 55-67 *)
pick_winner(t, unread, jpgFirst, files) ==
    LET sized == SortedBySize(t, unread, jpgFirst, files)
    IN [winner |-> sized[1],
        losers |-> Tail(sized),
        sizes |-> [i \in 1..Len(sized) |-> SizeSeen(t, unread, sized[i])]]

(* scan_folder, lines 37-53: the files of the directory under one key *)
GroupOf(t, b) == {n \in DOMAIN t : KeyOf(n) = <<b, "jpg">>}

(* lines 99-103: the groups collect_groups goes on with *)
ActedOn(t, b) ==
    LET files == GroupOf(t, b)
        stems == {StemOf(n) : n \in files}
    IN /\ Cardinality(files) > 1
       /\ (\E s \in stems : HasTrail(s)) \/ Cardinality(stems) > 1

(* lines 98-116: the actions, in the order of the sorted keys *)
RECURSIVE ActionsFrom(_, _, _, _)
ActionsFrom(t, unread, jpgFirst, b) ==
    IF b > NumStems THEN <<>>
    ELSE (IF ActedOn(t, b)
          THEN <<pick_winner(t, unread, jpgFirst, GroupOf(t, b))>>
          ELSE <<>>)
         \o ActionsFrom(t, unread, jpgFirst, b + 1)

collect_groups(t, unread, jpgFirst) == ActionsFrom(t, unread, jpgFirst, 1)

(* lines 191-192: the losers of all actions, in the order of the two loops *)
RECURSIVE AllLosers(_)
AllLosers(actions) ==
    IF actions = <<>> THEN <<>>
    ELSE Head(actions).losers \o AllLosers(Tail(actions))

DupIdle ==
    /\ UNCHANGED <<fs, overwrite, max_workers, im, disc, answer, job, meta, card,
                   heif_files, pc, stop, ok, skipped, failed, st, out, yielded,
                   exc, exitCode, fsStart, atStop>>

InitDedup ==
    /\ fs = [p \in Paths |-> Absent]
    /\ overwrite = FALSE
    /\ max_workers = 1
    /\ im = NoImage
    /\ disc = NoDisc
    /\ answer = NoAnswer /\ job = NoJob /\ meta = NoMeta /\ card = NoCard
    /\ FreshRun(fs)
    /\ \E t \in DupTrees :
         dedup = [pc |-> "scan", start |-> t, tree |-> t, actions |-> <<>>,
                  todo |-> <<>>, choice |-> "", failures |-> 0]

(* lines 143-158: the scan; without actions main returns at line 158.     *)
(* unread: the files whose stat() fails in pick_winner; jpgFirst: the     *)
(* order in which os.scandir lists two names that differ in case only     *)
DupScan ==
    /\ dedup.pc = "scan"
    /\ \E unread \in SUBSET DOMAIN dedup.tree, jpgFirst \in BOOLEAN :
         LET actions == collect_groups(dedup.tree, unread, jpgFirst)
         IN dedup' = [dedup EXCEPT !.actions = actions,
                                   !.todo = AllLosers(actions),
                                   !.pc = IF actions = <<>> THEN "done"
                                          ELSE "prompt"]
    /\ DupIdle

(* the same loop with the empty line taken for a yes *)
DupAsk_EmptyIsYes ==
    /\ dedup.pc = "prompt"
    /\ \E raw \in RawAnswers :
         LET choice == StripLower(raw)
         IN dedup' = [dedup EXCEPT
                !.choice = choice,
                !.pc = CASE choice \in {"y", "yes", ""} -> "delete"
                         [] choice \in {"n", "no"} -> "done"
                         [] OTHER -> "prompt"]
    /\ DupIdle

(* lines 179-187: one pass of the loop around input() *)
DupAsk ==
    /\ dedup.pc = "prompt"
    /\ \E raw \in RawAnswers :
         LET choice == StripLower(raw)
         IN dedup' = [dedup EXCEPT
                !.choice = choice,
                !.pc = CASE choice \in {"y", "yes"} -> "delete"
                         [] choice \in {"n", "no", ""} -> "done"
                         [] OTHER -> "prompt"]
    /\ DupIdle

(* the tree without one file *)
Without(t, f) == [n \in (DOMAIN t) \ {f} |-> t[n]]

(* lines 191-198: one os.remove(f); it removes the file or raises, and    *)
(* then the failure is counted                                            *)
DupRemove ==
    /\ dedup.pc = "delete"
    /\ dedup.todo # <<>>
    /\ LET f == Head(dedup.todo) IN
       \E removed \in BOOLEAN :
         dedup' = [dedup EXCEPT
                !.tree = IF removed THEN Without(dedup.tree, f) ELSE @,
                !.failures = IF removed THEN @ ELSE @ + 1,
                !.todo = Tail(@)]
    /\ DupIdle

(* lines 200-202: "=== Done ===" *)
DupDone ==
    /\ dedup.pc = "delete"
    /\ dedup.todo = <<>>
    /\ dedup' = [dedup EXCEPT !.pc = "done"]
    /\ DupIdle

NextDedup == DupScan \/ DupAsk \/ DupRemove \/ DupDone

SpecDedup == InitDedup /\ [][NextDedup]_vars

(* ---- C23 ---- *)

(* the files of one planned action *)
Members(a) == {a.winner} \cup Range(a.losers)

(* the run asked, got a yes and went through the whole deletion loop *)
Deleted == dedup.pc = "done" /\ dedup.choice \in {"y", "yes"}

(* files that stand alone under their key are still there, and nothing is *)
(* gone unless the user typed y or yes                                    *)
SinglesAndConsent ==
    /\ \A n \in DOMAIN dedup.start :
          Cardinality(GroupOf(dedup.start, n[1])) = 1 => n \in DOMAIN dedup.tree
    /\ DOMAIN dedup.tree # DOMAIN dedup.start => dedup.choice \in {"y", "yes"}

(* C23 as stated: in every group acted on the winner is a file of maximal *)
(* size and is not deleted, after the deletion step the group retains     *)
(* exactly one file; single files are never deleted; nothing is deleted   *)
(* before a y/yes.                                                        *)
C23_ExactlyOneLeft ==
    /\ \A i \in 1..Len(dedup.actions) :
         LET a == dedup.actions[i] IN
         /\ \A f \in Members(a) : dedup.start[a.winner] >= dedup.start[f]
         /\ a.winner \notin Range(a.losers)
         /\ a.winner \in DOMAIN dedup.tree
         /\ Deleted => Cardinality(Members(a) \cap DOMAIN dedup.tree) = 1
    /\ SinglesAndConsent

(* C23, amended: in every group acted on the winner has the largest size  *)
(* pick_winner read (-1 for a file whose size could not be read), is not  *)
(* among the losers and is never deleted; only losers are deleted; after  *)
(* the deletion step the group retains its winner, and exactly one file   *)
(* when no os.remove failed; single files are never deleted; nothing is   *)
(* deleted before a y/yes.                                                *)
C23_WinnerKept ==
    /\ \A i \in 1..Len(dedup.actions) :
         LET a == dedup.actions[i]
             sized == <<a.winner>> \o a.losers
         IN
         /\ \A k \in 1..Len(sized) :
               /\ a.sizes[k] \in {-1, dedup.start[sized[k]]}
               /\ a.sizes[1] >= a.sizes[k]
         /\ a.winner \notin Range(a.losers)
         /\ a.winner \in DOMAIN dedup.tree
         /\ (Deleted /\ dedup.failures = 0) =>
               Members(a) \cap DOMAIN dedup.tree = {a.winner}
    /\ (DOMAIN dedup.start) \ (DOMAIN dedup.tree) \subseteq Range(AllLosers(dedup.actions))
    /\ SinglesAndConsent

(* a group of three was acted on, one os.remove failed, the other did not *)
C23_Witness ==
    /\ Deleted
    /\ \E i \in 1..Len(dedup.actions) :
         /\ Len(dedup.actions[i].losers) = 2
         /\ Cardinality(Members(dedup.actions[i]) \cap DOMAIN dedup.tree) = 2
    /\ dedup.failures = 1

(* ==== renamer.py: one pass over the files of the Takeout folder ==== *)

MaxSidecars == 2

(* what a file of the walk is: not a sidecar by its name (lines 26-49), an *)
(* empty JSON file, one json.load rejects, one without photoTakenTime, or  *)
(* one with a timestamp                                                    *)
JsonKinds == {"other", "empty", "undecodable", "noTime", "timed"}

(* a file and what was done for it: image_exists is os.path.exists of the *)
(* image named by the sidecar; present: the file still exists; exif and   *)
(* date: the outcome of the two updates, "none" while not attempted       *)
Sidecars ==
    [image_exists : BOOLEAN, json : JsonKinds, present : {TRUE},
     exif : {"none"}, date : {"none"}]

MetaIdle ==
    /\ UNCHANGED <<fs, overwrite, max_workers, im, disc, answer, job, dedup, card,
                   heif_files, pc, stop, ok, skipped, failed, st, out, yielded,
                   exc, exitCode, fsStart, atStop>>

InitMeta ==
    /\ fs = [p \in Paths |-> Absent]
    /\ overwrite = FALSE
    /\ max_workers = 1
    /\ im = NoImage
    /\ disc = NoDisc
    /\ answer = NoAnswer /\ job = NoJob /\ dedup = NoDedup /\ card = NoCard
    /\ FreshRun(fs)
    /\ \E n \in 1..MaxSidecars : \E files \in [1..n -> Sidecars] :
         meta = [pc |-> "inspect", i |-> 1, files |-> files]

(* the file the loop of line 24 is at *)
Current == meta.files[meta.i]

(* "continue", or the end of the loop body: on to the next file, and to *)
(* line 123 after the last                                              *)
NextFile(m) ==
    IF m.i = Len(m.files) THEN [m EXCEPT !.pc = "done"]
    ELSE [m EXCEPT !.pc = "inspect", !.i = @ + 1]

(* lines 25-76: the name tests and the four checks that skip the file *)
MetaInspect ==
    /\ meta.pc = "inspect"
    /\ meta' = IF Current.json = "timed" /\ Current.image_exists
               THEN [meta EXCEPT !.pc = "exif"]
               ELSE NextFile(meta)
    /\ MetaIdle

(* lines 108-109 and 118-120: exiftool returns 0, returns another code, or *)
(* cannot be started and subprocess.run raises                             *)
MetaExif ==
    /\ meta.pc = "exif"
    /\ \E res \in {"ok", "failed", "raised"} :
         LET m == [meta EXCEPT !.files[meta.i].exif = res] IN
         meta' = CASE res = "ok" -> [m EXCEPT !.pc = "date"]
                   [] res = "failed" -> NextFile(m)
                   [] OTHER -> [m EXCEPT !.pc = "crashed"]
    /\ MetaIdle

(* update_filesystem_date, lines 14-20, called at line 113: the command   *)
(* succeeds; or it fails with CalledProcessError, which is caught and     *)
(* printed; or powershell cannot be started and subprocess.run raises     *)
update_filesystem_date ==
    /\ meta.pc = "date"
    /\ \E res \in {"ok", "failed", "raised"} :
         LET m == [meta EXCEPT !.files[meta.i].date = res] IN
         meta' = IF res \in {"ok", "failed"} THEN [m EXCEPT !.pc = "remove"]
                 ELSE [m EXCEPT !.pc = "crashed"]
    /\ MetaIdle

(* lines 116-117: os.remove(json_path) removes the sidecar, or raises *)
MetaRemove ==
    /\ meta.pc = "remove"
    /\ \/ meta' = NextFile([meta EXCEPT !.files[meta.i].present = FALSE])
       \/ meta' = [meta EXCEPT !.pc = "crashed"]
    /\ MetaIdle

NextMeta == MetaInspect \/ MetaExif \/ update_filesystem_date \/ MetaRemove

SpecMeta == InitMeta /\ [][NextMeta]_vars

(* ---- C24 ---- *)

(* C24: a sidecar is removed only when, for its image, the EXIF update and *)
(* the update of the creation date both succeeded; a file that was skipped *)
(* or whose update failed is kept. Whenever a sidecar is gone both updates *)
(* have succeeded before, and no step removes one otherwise.               *)
C24_State ==
    \A k \in 1..Len(meta.files) :
        ~meta.files[k].present =>
            /\ meta.files[k].exif = "ok" /\ meta.files[k].date = "ok"
            /\ meta.files[k].json = "timed" /\ meta.files[k].image_exists

C24_Step ==
    \A k \in 1..Len(meta.files) :
        (meta.files[k].present /\ ~meta'.files[k].present) =>
            meta.files[k].exif = "ok" /\ meta.files[k].date = "ok"

C24_DeleteAfterSuccess == []C24_State /\ [][C24_Step]_vars

(* ==== fileChecker.py: one call of check_files ==== *)

MaxNameLen == 2
MaxLocalFiles == 2
MaxCardFiles == 1

(* file names are strings over two letters and a digit *)
Letters == {"a", "b"}
Chars == Letters \cup {"1"}
FileNames == UNION {[1..n -> Chars] : n \in 1..MaxNameLen}

(* what get_file_info records for a file, lines 86-96; hash is what *)
(* calculate_file_hash returns for its content                      *)
FileInfos == [filename : FileNames, filesize : 1..MaxSize, hash : {"h1", "h2"}]

(* line 90: the hash is taken only if USE_HASHING is enabled *)
HashOf(use_hashing, f) == IF use_hashing THEN f.hash ELSE "None"

(* lines 102-115 *)
normalize_filename_variants(filename) ==
    {filename} \cup
        (IF Len(filename) > 1 /\ filename[1] \in Letters
         THEN {Tail(filename)} ELSE {})

(* lines 136-139: the keys of local_lookup *)
LocalLookup(use_hashing, local) ==
    UNION {{<<v, f.filesize, HashOf(use_hashing, f)>> :
               v \in normalize_filename_variants(f.filename)} : f \in local}

(* lines 152-155 *)
NormalizedKeys(use_hashing, f) ==
    {<<v, f.filesize, HashOf(use_hashing, f)>> :
        v \in normalize_filename_variants(f.filename)}

(* lines 149-158: the files of the card with no key in local_lookup *)
MissingFiles(use_hashing, lookup, sd) ==
    {f \in sd : NormalizedKeys(use_hashing, f) \cap lookup = {}}

CardIdle ==
    /\ UNCHANGED <<fs, overwrite, max_workers, im, disc, answer, job, dedup, meta,
                   heif_files, pc, stop, ok, skipped, failed, st, out, yielded,
                   exc, exitCode, fsStart, atStop>>

InitCard ==
    /\ fs = [p \in Paths |-> Absent]
    /\ overwrite = FALSE
    /\ max_workers = 1
    /\ im = NoImage
    /\ disc = NoDisc
    /\ answer = NoAnswer /\ job = NoJob /\ dedup = NoDedup /\ meta = NoMeta
    /\ FreshRun(fs)
    /\ \E use_hashing \in BOOLEAN,
          local \in SubsetsUpTo(FileInfos, MaxLocalFiles),
          sd \in SubsetsUpTo(FileInfos, MaxCardFiles) :
         card = [pc |-> "local", USE_HASHING |-> use_hashing,
                 local_files |-> local, sd_files |-> sd,
                 local_lookup |-> {}, missing_files |-> {}]

(* lines 130-139: the local folders are scanned and the lookup is built *)
ScanLocal ==
    /\ card.pc = "local"
    /\ card' = [card EXCEPT
            !.local_lookup = LocalLookup(card.USE_HASHING, card.local_files),
            !.pc = "card"]
    /\ CardIdle

(* lines 143-162: the card is scanned and its missing files are listed *)
ScanCard ==
    /\ card.pc = "card"
    /\ card' = [card EXCEPT
            !.missing_files = MissingFiles(card.USE_HASHING, card.local_lookup,
                                           card.sd_files),
            !.pc = "done"]
    /\ CardIdle

NextCard == ScanLocal \/ ScanCard

SpecCard == InitCard /\ [][NextCard]_vars

(* ---- C25 ---- *)

(* the first character of the name is a letter *)
LeadingLetter(n) == n[1] \in Letters

(* the two names are identical, or are so after the leading letter of one *)
(* of them is removed                                                     *)
SameButOneLetter(a, b) ==
    \/ a = b
    \/ LeadingLetter(a) /\ Tail(a) = b
    \/ LeadingLetter(b) /\ Tail(b) = a

(* a local file counts as the card's file f *)
PresentLocally(f) ==
    \E g \in card.local_files :
        /\ g.filesize = f.filesize
        /\ card.USE_HASHING => g.hash = f.hash
        /\ SameButOneLetter(f.filename, g.filename)

(* C25: after check_files a file of the card is left out of the missing  *)
(* list exactly when some local file has its size (and its hash when     *)
(* USE_HASHING is on) and a name that is the same, or the same once a    *)
(* single leading letter is removed from one of the two names.           *)
C25_MissingIffAbsent ==
    card.pc = "done" =>
        \A f \in card.sd_files : f \notin card.missing_files <=> PresentLocally(f)

(* ==== heic2jpg.py: the arguments main hands to the workers ==== *)

(* how far below 1 and above 100 the --quality values of the model reach *)
QualitySpan == 2

DEFAULT_QUALITY == 92
DEFAULT_SUBSAMPLING == 2
DEFAULT_OPTIMIZE == TRUE
DEFAULT_PROGRESSIVE == TRUE

Min(a, b) == IF a <= b THEN a ELSE b

(* lines 259-267: what parse_args may return; --quality is any integer, *)
(* 92 when the option is not given                                      *)
ArgsSpace ==
    [quality : (1 - QualitySpan)..(100 + QualitySpan),
     overwrite : BOOLEAN,
     icc : {"srgb", "keep", "none"}]

JobIdle ==
    /\ UNCHANGED <<fs, overwrite, max_workers, im, disc, answer, dedup, meta, card,
                   heif_files, pc, stop, ok, skipped, failed, st, out, yielded,
                   exc, exitCode, fsStart, atStop>>

(* main after a yes at the prompt: total files are to be submitted *)
InitJob ==
    /\ fs = [p \in Paths |-> Absent]
    /\ overwrite = FALSE
    /\ max_workers = 1
    /\ im = NoImage
    /\ disc = NoDisc
    /\ answer = NoAnswer /\ dedup = NoDedup /\ meta = NoMeta /\ card = NoCard
    /\ FreshRun(fs)
    /\ \E args \in ArgsSpace, total \in 1..MaxFiles :
         job = [pc |-> "submit", args |-> args, total |-> total, calls |-> <<>>]

(* the same call with args.quality passed on as it is *)
SubmitCall_NoClamp ==
    /\ job.pc = "submit"
    /\ LET call == [overwrite |-> job.args.overwrite,
                    quality |-> job.args.quality,
                    subsampling |-> DEFAULT_SUBSAMPLING,
                    optimize |-> DEFAULT_OPTIMIZE,
                    progressive |-> DEFAULT_PROGRESSIVE,
                    icc_mode |-> job.args.icc]
           calls == Append(job.calls, call)
       IN job' = [job EXCEPT !.calls = calls,
                             !.pc = IF Len(calls) = job.total THEN "done"
                                    ELSE "submit"]
    /\ JobIdle

(* lines 301-311: one ex.submit(_convert_one, str(p), ...) of the dict *)
(* comprehension; call is what the worker receives                     *)
SubmitCall ==
    /\ job.pc = "submit"
    /\ LET call == [overwrite |-> job.args.overwrite,
                    quality |-> Max(1, Min(100, job.args.quality)),
                    subsampling |-> DEFAULT_SUBSAMPLING,
                    optimize |-> DEFAULT_OPTIMIZE,
                    progressive |-> DEFAULT_PROGRESSIVE,
                    icc_mode |-> job.args.icc]
           calls == Append(job.calls, call)
       IN job' = [job EXCEPT !.calls = calls,
                             !.pc = IF Len(calls) = job.total THEN "done"
                                    ELSE "submit"]
    /\ JobIdle

NextJob == SubmitCall

SpecJob == InitJob /\ [][NextJob]_vars

(* ---- C26 ---- *)

(* C26: whatever integer --quality is, every worker call receives 1 for a *)
(* value below 1, 100 for a value above 100 and the value itself          *)
(* otherwise, hence a quality in 1..100; and all calls of a run receive   *)
(* the same overwrite, quality, subsampling, optimize, progressive and    *)
(* colour-mode values.                                                    *)
C26_QualityClamped ==
    \A i \in 1..Len(job.calls) :
        LET q == job.args.quality
            c == job.calls[i]
        IN /\ q < 1 => c.quality = 1
           /\ q > 100 => c.quality = 100
           /\ q \in 1..100 => c.quality = q
           /\ c.quality \in 1..100
           /\ c = job.calls[1]

(* a run with --quality above 100 has submitted all its files, more than one *)
C26_Witness ==
    /\ job.pc = "done"
    /\ job.args.quality > 100
    /\ Len(job.calls) > 1
    /\ job.calls[Len(job.calls)].quality = 100

====
